---- MODULE Spec2Model ----
(***************************************************************************)
(* A model of the Telegram notifier MCP server.                            *)
(*                                                                         *)
(* Three revisions of the program are modelled over the same variables:    *)
(*   - the TelegramService revision (src/src/services/telegramService.ts   *)
(*     driven by the four handlers of src/src/tools/telegram.ts):          *)
(*     Spec (one invocation at a time, every input), SpecConc (several     *)
(*     invocations in flight, a reduced input set) and SpecLive (Spec      *)
(*     under the fairness the event loop provides);                        *)
(*   - the inline-handler revision of the tools (src/unnamed/part_001):    *)
(*     SpecRevisions, which runs it side by side with the service one;     *)
(*   - the single-file revision src/src/server.ts (registerApiTool,        *)
(*     telegramPost, getOrThrow, format): SpecServer.                      *)
(*                                                                         *)
(* Text is a sequence of tokens: concatenation is \o and                   *)
(* String.prototype.includes is a search for a contiguous subsequence.     *)
(* An optional value is a sequence of length 0 (undefined) or 1.           *)
(***************************************************************************)
EXTENDS Naturals, Sequences, FiniteSets

VARIABLES
    config,   \* TelegramConfig {token, chatId} / process.env of server.ts
    phase,    \* "boot" | "registered" | "serving": bootstrap position;
              \* "inline": the inline-handler revision is the one serving
    fs,       \* the set of paths that exist on the filesystem
    inv       \* per in-flight slot: the state of one tool invocation

vars == <<config, phase, fs, inv>>

----------------------------------------------------------------------------
(* Text *)

None == <<>>
Some(v) == <<v>>
IsSome(o) == Len(o) = 1
Get(o) == o[1]

Lit(s) == <<s>>

\* String.prototype.includes
Includes(hay, needle) ==
    \E k \in 0..Len(hay) :
        /\ k + Len(needle) <= Len(hay)
        /\ SubSeq(hay, k + 1, k + Len(needle)) = needle

----------------------------------------------------------------------------
(* Inputs *)

HttpsUrl   == <<"https", ":", "//", "example.com", "/cat.png">>
DrivePath  == <<"C", ":", "\\dir\\file">>
EmptyHost  == <<"https", ":", "//">>
BarePath   == <<"/tmp/", "report.pdf">>
NeedlePath == <<"/tmp/", "Photo not found", ".png">>

MediaRefs == {HttpsUrl, DrivePath, EmptyHost, BarePath, NeedlePath}

\* names that a file may bear: any string is a legal relative or absolute path
FileNames == {DrivePath, BarePath, NeedlePath}

Texts == {<<"hello">>, HttpsUrl, BarePath}
Captions == {None, Some(<<>>), Some(<<"hi">>)}
Filenames == {None, Some(<<>>), Some(<<"Q3-Report.pdf">>)}
ParseModes == {"Markdown", "MarkdownV2", "HTML"}
OptParseModes == {None} \cup {Some(Lit(m)) : m \in ParseModes}

Ops == {"message", "photo", "document", "video"}
MediaOps == {"photo", "document", "video"}

\* the arguments a host may pass to each tool (the zod input schemas)
ArgsOf(op) ==
    IF op = "message"
    THEN [op : {op}, ref : Texts, caption : {None}, filename : {None},
          parseMode : OptParseModes]
    ELSE [op : {op}, ref : MediaRefs, caption : Captions,
          filename : IF op = "photo" THEN {None} ELSE Filenames,
          parseMode : OptParseModes]

ArgsAll == UNION {ArgsOf(op) : op \in Ops}

\* the reduced inputs of the concurrent specification: the text message, a
\* photo by URL, and a photo and a document by path, all without options
ArgsConc ==
    {a \in ArgsAll : /\ a.parseMode = None
                     /\ a.filename = None
                     /\ a.caption = None
                     /\ \/ a.op = "message" /\ a.ref = <<"hello">>
                        \/ a.op = "photo" /\ a.ref \in {HttpsUrl, BarePath}
                        \/ a.op = "document" /\ a.ref = BarePath}

Tokens == {"123:abc", "456:def"}
ChatIds == {"-1001"}

----------------------------------------------------------------------------
(* new URL(str): the WHATWG parser without a base.  A string parses when    *)
(* it starts with a scheme and ":"; a special scheme needs a host.         *)

Schemes == {"https", "http", "C", "mailto"}
SpecialSchemes == {"https", "http"}

HasHost(str) ==
    \E k \in 3..Len(str) : str[k] \notin {"//", "/", "\\"}

UrlParses(str) ==
    /\ Len(str) >= 2
    /\ str[1] \in Schemes
    /\ str[2] = ":"
    /\ (str[1] \in SpecialSchemes => HasHost(str))

isUrl(str) == UrlParses(str)

----------------------------------------------------------------------------
(* Upstream response bodies, and the conversions applied to them *)

NoData == [t |-> "none", s |-> <<>>, ok |-> FALSE]
StrData(str) == [t |-> "str", s |-> str, ok |-> FALSE]
\* {"ok": ok} or {"ok": ok, "description": desc}
ObjData(ok, desc) == [t |-> "obj", s |-> desc, ok |-> ok]

\* JavaScript truthiness of a response body
Truthy(d) == d.t = "obj" \/ (d.t = "str" /\ d.s # <<>>)

\* JSON.stringify(data)
JSONstringify(d) ==
    IF d.t = "obj"
    THEN <<"{", "\"ok\":", IF d.ok THEN "true" ELSE "false">>
         \o (IF d.s # <<>>
             THEN <<",", "\"description\":", "\"">> \o d.s \o <<"\"">>
             ELSE <<>>)
         \o <<"}">>
    ELSE <<"\"">> \o d.s \o <<"\"">>

\* String(data), as new Error(data) and template literals apply it
ToString(d) == IF d.t = "obj" THEN <<"[object Object]">> ELSE d.s

\* what axios.post settles with: a 2xx response, an AxiosError carrying the
\* response (non-2xx), or an error without one (network, stream)
StatusToken(n) == IF n = 403 THEN "403" ELSE IF n = 502 THEN "502" ELSE "500"

HttpError(status, data) ==
    [kind |-> "http", status |-> status,
     message |-> <<"Request failed with status code ", StatusToken(status)>>,
     data |-> data]

OkResults ==
    {[kind |-> "ok", status |-> 200, message |-> <<>>, data |-> ObjData(TRUE, <<>>)],
     [kind |-> "ok", status |-> 200, message |-> <<>>,
      data |-> ObjData(FALSE, <<"Bad Request">>)]}

HttpErrors ==
    {HttpError(403, ObjData(FALSE, <<"Forbidden">>)),
     HttpError(502, StrData(<<"Bad Gateway">>)),
     HttpError(500, StrData(<<>>))}

NetError ==
    [kind |-> "net", status |-> 0,
     message |-> <<"getaddrinfo ENOTFOUND ", "api.telegram.org">>,
     data |-> NoData]

\* the read stream's 'error' when the path is gone at open time
StreamError(path) ==
    [kind |-> "stream", status |-> 0,
     message |-> <<"ENOENT: no such file or directory, open '">> \o path \o <<"'">>,
     data |-> NoData]

AxiosResults == OkResults \cup HttpErrors \cup {NetError}

\* error.response?.data
ResponseData(error) == IF error.kind = "http" THEN error.data ELSE NoData

----------------------------------------------------------------------------
(* src/src/services/telegramService.ts *)

\* faulty variant: the message names the URL of the failed request
handleTelegramErrorWithUrl(error, operation) ==
    <<"Failed to ", operation, ": ">> \o error.message
    \o <<" at ", "https://api.telegram.org", "/bot", config.token>>
    \o (IF Truthy(ResponseData(error))
        THEN <<"\nResponse: ">> \o JSONstringify(ResponseData(error))
        ELSE <<>>)

\* handleTelegramError: the message of the Error it throws
handleTelegramError(error, operation) ==
    <<"Failed to ", operation, ": ">> \o error.message
    \o (IF Truthy(ResponseData(error))
        THEN <<"\nResponse: ">> \o JSONstringify(ResponseData(error))
        ELSE <<>>)

\* faulty variant: sendVideo posts to the endpoint of sendDocument
MethodCopied(op) ==
    CASE op = "message"  -> "sendMessage"
      [] op = "photo"    -> "sendPhoto"
      [] op = "document" -> "sendDocument"
      [] op = "video"    -> "sendDocument"

Method(op) ==
    CASE op = "message"  -> "sendMessage"
      [] op = "photo"    -> "sendPhoto"
      [] op = "document" -> "sendDocument"
      [] op = "video"    -> "sendVideo"

Operation(op) ==
    CASE op = "message"  -> "send message"
      [] op = "photo"    -> "send photo"
      [] op = "document" -> "send document"
      [] op = "video"    -> "send video"

\* a plain object serialized as a JSON body: keys whose value is undefined
\* are dropped
JsonBody(obj) ==
    [k \in {k \in DOMAIN obj : IsSome(obj[k])} |-> Get(obj[k])]

\* sendMessage's axios.post(url, {chat_id, text, parse_mode})
MessageRequest(cfg, text, parseMode) ==
    [method |-> Method("message"), token |-> cfg.token, format |-> "json",
     fields |-> JsonBody([k \in {"chat_id", "text", "parse_mode"} |->
                   CASE k = "chat_id" -> Some(Lit(cfg.chatId))
                     [] k = "text" -> Some(text)
                     [] k = "parse_mode" -> Some(parseMode)]),
     file |-> None]

\* the URL branch: axios.post(url, {chat_id, <kind>, caption, parse_mode})
RemoteRequest(cfg, op, ref, caption, parseMode) ==
    [method |-> Method(op), token |-> cfg.token, format |-> "json",
     fields |-> JsonBody([k \in {"chat_id", op, "caption", "parse_mode"} |->
                   CASE k = "chat_id" -> Some(Lit(cfg.chatId))
                     [] k = op -> Some(ref)
                     [] k = "caption" -> caption
                     [] k = "parse_mode" -> Some(parseMode)]),
     file |-> None]

\* if (caption), if (filename): undefined and "" are both falsy
TruthyStr(o) == IsSome(o) /\ Get(o) # <<>>

\* faulty variant: the stream is appended without the filename option
LocalRequestUntagged(cfg, op, ref, caption, filename, parseMode) ==
    [method |-> Method(op), token |-> cfg.token, format |-> "multipart",
     fields |-> [k \in (IF TruthyStr(caption)
                        THEN {"chat_id", "caption", "parse_mode"}
                        ELSE {"chat_id"}) |->
                   CASE k = "chat_id" -> Lit(cfg.chatId)
                     [] k = "caption" -> Get(caption)
                     [] k = "parse_mode" -> parseMode],
     file |-> Some([field |-> op, path |-> ref, filename |-> None])]

\* faulty variant: the binary field keeps the name it has in sendPhoto
LocalRequestPhotoField(cfg, op, ref, caption, filename, parseMode) ==
    [method |-> Method(op), token |-> cfg.token, format |-> "multipart",
     fields |-> [k \in (IF TruthyStr(caption)
                        THEN {"chat_id", "caption", "parse_mode"}
                        ELSE {"chat_id"}) |->
                   CASE k = "chat_id" -> Lit(cfg.chatId)
                     [] k = "caption" -> Get(caption)
                     [] k = "parse_mode" -> parseMode],
     file |-> Some([field |-> "photo", path |-> ref,
                    filename |-> IF op # "photo" /\ TruthyStr(filename)
                                 THEN filename ELSE None])]

\* the file branch: the FormData handed to axios.post
LocalRequest(cfg, op, ref, caption, filename, parseMode) ==
    [method |-> Method(op), token |-> cfg.token, format |-> "multipart",
     fields |-> [k \in (IF TruthyStr(caption)
                        THEN {"chat_id", "caption", "parse_mode"}
                        ELSE {"chat_id"}) |->
                   CASE k = "chat_id" -> Lit(cfg.chatId)
                     [] k = "caption" -> Get(caption)
                     [] k = "parse_mode" -> parseMode],
     file |-> Some([field |-> op, path |-> ref,
                    filename |-> IF op # "photo" /\ TruthyStr(filename)
                                 THEN filename ELSE None])]

NotFoundNeedle(op) ==
    CASE op = "photo"    -> "Photo not found"
      [] op = "document" -> "Document not found"
      [] op = "video"    -> "Video not found"

NotFoundGuidance(op) ==
    IF op = "photo"
    THEN ". Provide a valid file path, HTTP URL, or base64 data."
    ELSE ". Provide a valid file path or HTTP URL."

\* faulty variant: the message of sendDocument copied into the other two methods
NotFoundMessageCopied(op, ref) ==
    <<"Document not found", ": ">> \o ref \o <<NotFoundGuidance(op)>>

\* the Error thrown by the final else branch
NotFoundMessage(op, ref) ==
    <<NotFoundNeedle(op), ": ">> \o ref \o <<NotFoundGuidance(op)>>

\* the catch block of sendPhoto / sendDocument / sendVideo: the message of
\* the error that leaves the method
mediaCatch(op, error) ==
    IF Includes(error.message, <<NotFoundNeedle(op)>>)
    THEN error.message
    ELSE handleTelegramError(error, Operation(op))

\* the catch block of sendMessage
messageCatch(error) == handleTelegramError(error, Operation("message"))

----------------------------------------------------------------------------
(* src/src/tools/telegram.ts *)

\* faulty variant: the default is the legacy mode
EffectiveParseModeLegacy(o) == IF IsSome(o) THEN Get(o) ELSE Lit("Markdown")

\* parseMode = 'MarkdownV2' (message), parseMode || 'MarkdownV2' (media)
EffectiveParseMode(o) == IF IsSome(o) THEN Get(o) ELSE Lit("MarkdownV2")

Confirmation(op) ==
    CASE op = "message"  -> <<"Message sent successfully">>
      [] op = "photo"    -> <<"Photo sent successfully">>
      [] op = "document" -> <<"Document sent successfully">>
      [] op = "video"    -> <<"Video sent successfully">>

\* how a registered handler settles: it returns the envelope when the awaited
\* service call resolved, and rejects with the service's error otherwise
\* (the handlers hold no try/catch)
Returned(text) == [kind |-> "returned", text |-> text]
Rejected(message) == [kind |-> "rejected", text |-> message]

\* faulty variant: the handler swallows the service's error
ToolHandlerSwallows(op, threw, message) == Returned(Confirmation(op))

ToolHandler(op, threw, message) ==
    IF threw THEN Rejected(message) ELSE Returned(Confirmation(op))

----------------------------------------------------------------------------
(* State of one invocation *)

NoArgs == [op |-> "none", ref |-> <<>>, caption |-> None, filename |-> None,
           parseMode |-> None]

\* pc: "idle" (no call), "probing" (awaiting fs.promises.access), "posting"
\* (awaiting axios.post), "done" (the handler has settled)
\* stream: the fs.ReadStream of the upload: "none", "pending" (created, not
\* yet opened), "open", "closed", "failed" (open failed: no descriptor)
\* probed: what fileExists returned: "no" (not called), "found", "missing"
Idle == [pc |-> "idle", args |-> NoArgs, probed |-> "no", stream |-> "none",
         reqs |-> <<>>, resp |-> None, outcome |-> None]

Slots == DOMAIN inv

Thrown(message) ==
    [kind |-> "thrown", status |-> 0, message |-> message, data |-> NoData]

\* faulty variant: the filesystem check comes first
NeedsProbeFirst(ref) == TRUE

\* if (await this.isUrl(ref)) ... else if (await this.fileExists(ref)):
\* the filesystem is probed only when the URL check fails
NeedsProbe(ref) == ~isUrl(ref)

\* how the service method and then its handler settle on axios's result
Settle(op, r) ==
    IF r.kind = "ok"
    THEN ToolHandler(op, FALSE, <<>>)
    ELSE ToolHandler(op, TRUE,
                     IF op = "message" THEN messageCatch(r) ELSE mediaCatch(op, r))

----------------------------------------------------------------------------
(* Actions of the TelegramService revision *)

\* the host calls a tool: the handler runs up to its first pending await
Invoke(i, a) ==
    /\ phase = "serving"
    /\ inv[i].pc = "idle"
    /\ LET pm == EffectiveParseMode(a.parseMode)
       IN inv' = [inv EXCEPT ![i] =
            IF a.op = "message"
            THEN [Idle EXCEPT !.pc = "posting", !.args = a,
                              !.reqs = <<MessageRequest(config, a.ref, pm)>>]
            ELSE IF ~NeedsProbe(a.ref)
            THEN [Idle EXCEPT !.pc = "posting", !.args = a,
                              !.reqs = <<RemoteRequest(config, a.op, a.ref,
                                                       a.caption, pm)>>]
            ELSE [Idle EXCEPT !.pc = "probing", !.args = a]]
    /\ UNCHANGED <<config, phase, fs>>

\* fs.promises.access settles: the file branch or the final else branch
fileExists(i) ==
    /\ inv[i].pc = "probing"
    /\ LET a == inv[i].args
           pm == EffectiveParseMode(a.parseMode)
       IN inv' = [inv EXCEPT ![i] =
            IF a.ref \in fs
            THEN [@ EXCEPT !.pc = "posting", !.probed = "found",
                           !.stream = "pending",
                           !.reqs = Append(@, LocalRequest(config, a.op, a.ref,
                                             a.caption, a.filename, pm))]
            ELSE [@ EXCEPT !.pc = "done", !.probed = "missing",
                           !.outcome = Some(ToolHandler(a.op, TRUE,
                               mediaCatch(a.op,
                                   Thrown(NotFoundMessage(a.op, a.ref)))))]]
    /\ UNCHANGED <<config, phase, fs>>

\* the read stream opens its file (after the existence probe, not with it)
OpenStream(i) ==
    /\ inv[i].pc = "posting"
    /\ inv[i].stream = "pending"
    /\ inv' = [inv EXCEPT ![i].stream =
                  IF inv[i].args.ref \in fs THEN "open" ELSE "failed"]
    /\ UNCHANGED <<config, phase, fs>>

\* faulty variant: a failed POST is sent once more
RespondRetries(i, r, consumed) ==
    /\ inv[i].pc = "posting"
    /\ inv[i].stream \in {"none", "open"}
    /\ r.kind = "ok" => consumed
    /\ inv[i].stream = "none" => consumed
    /\ inv' = [inv EXCEPT ![i] =
            IF r.kind # "ok" /\ Len(inv[i].reqs) < 2
            THEN [@ EXCEPT !.reqs = Append(@, inv[i].reqs[1])]
            ELSE [@ EXCEPT !.pc = "done", !.resp = Some(r),
                      !.stream = IF @ = "open" /\ consumed THEN "closed" ELSE @,
                      !.outcome = Some(Settle(inv[i].args.op, r))]]
    /\ UNCHANGED <<config, phase, fs>>

\* faulty variant: an upstream rejection of the token clears it in the shared config
RespondInvalidates(i, r, consumed) ==
    /\ inv[i].pc = "posting"
    /\ inv[i].stream \in {"none", "open"}
    /\ r.kind = "ok" => consumed
    /\ inv[i].stream = "none" => consumed
    /\ inv' = [inv EXCEPT ![i] =
            [@ EXCEPT !.pc = "done", !.resp = Some(r),
                      !.stream = IF @ = "open" /\ consumed THEN "closed" ELSE @,
                      !.outcome = Some(Settle(inv[i].args.op, r))]]
    /\ config' = IF r.kind = "http" THEN [config EXCEPT !.token = ""] ELSE config
    /\ UNCHANGED <<phase, fs>>

\* axios.post settles with r; consumed tells whether the body was read to
\* its end (then the stream auto-closes); nothing else closes the stream
Respond(i, r, consumed) ==
    /\ inv[i].pc = "posting"
    /\ inv[i].stream \in {"none", "open"}
    /\ r.kind = "ok" => consumed
    /\ inv[i].stream = "none" => consumed
    /\ inv' = [inv EXCEPT ![i] =
            [@ EXCEPT !.pc = "done", !.resp = Some(r),
                      !.stream = IF @ = "open" /\ consumed THEN "closed" ELSE @,
                      !.outcome = Some(Settle(inv[i].args.op, r))]]
    /\ UNCHANGED <<config, phase, fs>>

\* faulty variant: the stream's error is dropped and the POST counts as sent
RespondStreamErrorIgnored(i) ==
    /\ inv[i].pc = "posting"
    /\ inv[i].stream = "failed"
    /\ LET r == [kind |-> "ok", status |-> 200, message |-> <<>>,
                 data |-> ObjData(TRUE, <<>>)]
       IN inv' = [inv EXCEPT ![i] =
            [@ EXCEPT !.pc = "done", !.resp = Some(r),
                      !.outcome = Some(Settle(inv[i].args.op, r))]]
    /\ UNCHANGED <<config, phase, fs>>

\* the upload's stream failed to open: axios.post rejects with its error
RespondStreamError(i) ==
    /\ inv[i].pc = "posting"
    /\ inv[i].stream = "failed"
    /\ LET r == StreamError(inv[i].args.ref)
       IN inv' = [inv EXCEPT ![i] =
            [@ EXCEPT !.pc = "done", !.resp = Some(r),
                      !.outcome = Some(Settle(inv[i].args.op, r))]]
    /\ UNCHANGED <<config, phase, fs>>

\* the host has taken the settled result; the slot serves the next call
Retire(i) ==
    /\ inv[i].pc = "done"
    /\ inv' = [inv EXCEPT ![i] = Idle]
    /\ UNCHANGED <<config, phase, fs>>

\* other processes create and remove files
CreateFile(f) ==
    /\ f \notin fs
    /\ fs' = fs \cup {f}
    /\ UNCHANGED <<config, phase, inv>>

RemoveFile(f) ==
    /\ f \in fs
    /\ fs' = fs \ {f}
    /\ UNCHANGED <<config, phase, inv>>

FsStep(files) == \E f \in files : CreateFile(f) \/ RemoveFile(f)

ServiceStep(i) ==
    \/ fileExists(i)
    \/ OpenStream(i)
    \/ \E r \in AxiosResults, consumed \in BOOLEAN : Respond(i, r, consumed)
    \/ RespondStreamError(i)
    \/ Retire(i)

\* registerTelegramTool(server, config) has run: the tools are being served
InitService(n, tokens, files) ==
    /\ config \in [token : tokens, chatId : ChatIds]
    /\ phase = "serving"
    /\ fs \in SUBSET files
    /\ inv = [i \in 1..n |-> Idle]

MaxInFlight == 2

Init == InitService(1, Tokens, FileNames)

Next ==
    \/ \E i \in Slots : \E a \in ArgsAll : Invoke(i, a)
    \/ \E i \in Slots : ServiceStep(i)
    \/ FsStep(FileNames)

Spec == Init /\ [][Next]_vars

\* what the event loop guarantees: a pending fs.promises.access settles, a
\* created read stream opens or fails, and a failed stream rejects the
\* POST.  axios.post is called without a timeout (axios's default is 0:
\* none) and without a cancellation signal, so nothing in the program
\* makes the awaited POST settle: that an answer comes is up to the
\* upstream alone and is not assumed.
ProgramStep ==
    \E i \in Slots : fileExists(i) \/ OpenStream(i) \/ RespondStreamError(i)

SpecLive == Init /\ [][Next]_vars /\ WF_vars(ProgramStep)

\* the files and the token that the reduced inputs can tell apart
FilesConc == {BarePath}
TokensConc == {"123:abc"}

InitConc == InitService(MaxInFlight, TokensConc, FilesConc)

NextConc ==
    \/ \E i \in Slots : \E a \in ArgsConc : Invoke(i, a)
    \/ \E i \in Slots : ServiceStep(i)
    \/ FsStep(FilesConc)

SpecConc == InitConc /\ [][NextConc]_vars

----------------------------------------------------------------------------
(* src/unnamed/part_001: the revision of tools/telegram.ts whose handlers  *)
(* hold the resolution and the POST inline.  It differs from the service   *)
(* revision in the URL branch only, which posts parse_mode: parseMode as   *)
(* the input schema parsed it.                                             *)

\* z.enum([...]).default('MarkdownV2').optional() applied to the argument:
\* an omitted parseMode stays undefined or becomes the default, depending
\* on whether the optional wrapper consults the default it wraps
SchemaParseMode(o) ==
    IF IsSome(o) THEN {o} ELSE {None, Some(Lit("MarkdownV2"))}

\* the URL branch: axios.post(url, {chat_id, <kind>, caption, parse_mode})
InlineRemoteRequest(cfg, op, ref, caption, parseMode) ==
    [method |-> Method(op), token |-> cfg.token, format |-> "json",
     fields |-> JsonBody([k \in {"chat_id", op, "caption", "parse_mode"} |->
                   CASE k = "chat_id" -> Some(Lit(cfg.chatId))
                     [] k = op -> Some(ref)
                     [] k = "caption" -> caption
                     [] k = "parse_mode" -> parseMode]),
     file |-> None]

\* the host calls a tool: the handler runs up to its first pending await;
\* the file branch and the catch blocks are those of the service revision
InlineInvoke(i, a, parsed) ==
    /\ phase = "inline"
    /\ inv[i].pc = "idle"
    /\ inv' = [inv EXCEPT ![i] =
            IF a.op = "message"
            THEN [Idle EXCEPT !.pc = "posting", !.args = a,
                      !.reqs = <<MessageRequest(config, a.ref,
                                     EffectiveParseMode(a.parseMode))>>]
            ELSE IF isUrl(a.ref)
            THEN [Idle EXCEPT !.pc = "posting", !.args = a,
                      !.reqs = <<InlineRemoteRequest(config, a.op, a.ref,
                                                     a.caption, parsed)>>]
            ELSE [Idle EXCEPT !.pc = "probing", !.args = a]]
    /\ UNCHANGED <<config, phase, fs>>

InitRevisions ==
    /\ config \in [token : TokensConc, chatId : ChatIds]
    /\ phase \in {"serving", "inline"}
    /\ fs \in SUBSET FileNames
    /\ inv = [i \in 1..1 |-> Idle]

NextRevisions ==
    \/ Next
    \/ \E i \in Slots : \E a \in ArgsAll :
           \E parsed \in SchemaParseMode(a.parseMode) : InlineInvoke(i, a, parsed)

SpecRevisions == InitRevisions /\ [][NextRevisions]_vars

----------------------------------------------------------------------------
(* src/src/server.ts: the single-file revision *)

\* an environment variable that is not set (undefined and "" are both falsy)
Unset == ""

\* telegramPost: the TelegramResponse it returns for what its try block
\* settled with; error.message is error.response?.data || error.message,
\* which is the response body itself (not text) when there is one
telegramPost(r) ==
    IF r.kind = "ok"
    THEN [error |-> FALSE, status |-> None, message |-> NoData, data |-> r.data]
    ELSE [error |-> TRUE,
          status |-> IF r.kind = "http" THEN Some(r.status) ELSE None,
          message |-> IF Truthy(ResponseData(r))
                      THEN ResponseData(r) ELSE StrData(r.message),
          data |-> NoData]

\* getOrThrow: throws new Error(result.error.message), whose message is
\* String(...) of what it was given
getOrThrow(result) ==
    IF result.error
    THEN [threw |-> TRUE, message |-> ToString(result.message), data |-> NoData]
    ELSE [threw |-> FALSE, message |-> <<>>, data |-> result.data]

\* the logic of send_markdown_message_as_telegram_bot after the post
sendMessageLogic(r) ==
    LET response == getOrThrow(telegramPost(r))
    IN IF response.threw THEN response
       ELSE IF ~(response.data.t = "obj" /\ response.data.ok)
       THEN [threw |-> TRUE, message |-> <<"Telegram API returned ok=false">>,
             data |-> NoData]
       ELSE [threw |-> FALSE, message |-> <<"Message sent successfully", " (check mark)">>,
             data |-> NoData]

\* format: a string is passed through
format(text) == Returned(text)

\* registerApiTool: the handler it registers catches whatever logic throws
registerApiTool(result) ==
    IF result.threw
    THEN format(<<"Unhandled error: ">>
                \o (IF result.message = <<>> THEN <<"Error">> ELSE result.message))
    ELSE format(result.message)

\* registerApiTool(...) at module level: the tool is registered
RegisterApiTool ==
    /\ phase = "boot"
    /\ phase' = "registered"
    /\ UNCHANGED <<config, fs, inv>>

\* await server.connect(transport): the process serves tool calls
ServerConnect ==
    /\ phase = "registered"
    /\ phase' = "serving"
    /\ UNCHANGED <<config, fs, inv>>

\* a call of the tool: the logic runs up to the await of axios.post
ServerInvoke(i, text) ==
    /\ phase = "serving"
    /\ inv[i].pc = "idle"
    /\ LET a == [NoArgs EXCEPT !.op = "message", !.ref = text]
       IN inv' = [inv EXCEPT ![i] =
            IF config.chatId = Unset
            THEN [Idle EXCEPT !.pc = "done", !.args = a,
                     !.outcome = Some(registerApiTool(
                         [threw |-> TRUE, message |-> <<"Missing TELEGRAM_CHAT_ID">>,
                          data |-> NoData]))]
            ELSE IF config.token = Unset
            THEN [Idle EXCEPT !.pc = "done", !.args = a,
                     !.outcome = Some(registerApiTool(sendMessageLogic(
                         Thrown(<<"Missing TELEGRAM_BOT_TOKEN">>))))]
            ELSE [Idle EXCEPT !.pc = "posting", !.args = a,
                     !.reqs = <<MessageRequest(config, text, Lit("MarkdownV2"))>>]]
    /\ UNCHANGED <<config, phase, fs>>

\* axios.post settles with r
ServerRespond(i, r) ==
    /\ inv[i].pc = "posting"
    /\ inv' = [inv EXCEPT ![i] =
            [@ EXCEPT !.pc = "done", !.resp = Some(r),
                      !.outcome = Some(registerApiTool(sendMessageLogic(r)))]]
    /\ UNCHANGED <<config, phase, fs>>

\* dotenv.config() has run: process.env holds what the operator supplied
InitServer ==
    /\ config \in [token : Tokens \cup {Unset}, chatId : ChatIds \cup {Unset}]
    /\ phase = "boot"
    /\ fs = {}
    /\ inv = [i \in 1..MaxInFlight |-> Idle]

NextServer ==
    \/ RegisterApiTool
    \/ ServerConnect
    \/ \E i \in Slots : \E text \in Texts : ServerInvoke(i, text)
    \/ \E i \in Slots : \E r \in AxiosResults : ServerRespond(i, r)
    \/ \E i \in Slots : Retire(i)

SpecServer == InitServer /\ [][NextServer]_vars

----------------------------------------------------------------------------
(* Claims *)

Done(i) == inv[i].pc = "done"
IsMediaCall(i) == inv[i].args.op \in MediaOps

\* C1: for sendPhoto, sendDocument and sendVideo, a media string that parses
\* as a URL takes the Remote path whatever the filesystem holds: the
\* existence probe is never made, no read stream is opened, and the one
\* request of the invocation is a JSON body without a file part.
C1_UrlTakesRemote ==
    \A i \in Slots :
        (IsMediaCall(i) /\ UrlParses(inv[i].args.ref)) =>
            /\ inv[i].probed = "no"
            /\ inv[i].stream = "none"
            /\ inv[i].pc \in {"posting", "done"}
            /\ Len(inv[i].reqs) = 1
            /\ inv[i].reqs[1].format = "json"
            /\ inv[i].reqs[1].file = None

\* a URL-parsable media string that also names an existing file was sent
\* by reference and the call has returned
C1_Witness ==
    \E i \in Slots :
        /\ IsMediaCall(i)
        /\ UrlParses(inv[i].args.ref)
        /\ inv[i].args.ref \in fs
        /\ Done(i)
        /\ Get(inv[i].outcome).kind = "returned"

C2_KindText(op) ==
    CASE op = "photo"    -> <<"Photo not found">>
      [] op = "document" -> <<"Document not found">>
      [] op = "video"    -> <<"Video not found">>

\* C2: for sendPhoto, sendDocument and sendVideo, when the media string is
\* neither a parsable URL nor an existing file, the invocation makes no
\* network call and fails with a message holding the kind-specific text
\* and the literal input string.
C2_NotFoundFailsLocally ==
    \A i \in Slots :
        (IsMediaCall(i) /\ ~UrlParses(inv[i].args.ref)
                        /\ inv[i].probed = "missing") =>
            /\ Done(i)
            /\ inv[i].reqs = <<>>
            /\ inv[i].resp = None
            /\ Get(inv[i].outcome).kind = "rejected"
            /\ Includes(Get(inv[i].outcome).text, C2_KindText(inv[i].args.op))
            /\ Includes(Get(inv[i].outcome).text, inv[i].args.ref)

\* sendVideo was called with a path that names no file and has failed
C2_Witness ==
    \E i \in Slots :
        /\ inv[i].args.op = "video"
        /\ inv[i].args.ref = BarePath
        /\ inv[i].probed = "missing"
        /\ Done(i)
        /\ inv[i].reqs = <<>>

\* C3: a media call without a caption puts neither caption nor parse_mode in
\* its request, and a media call with a caption puts both, on the JSON path
\* and on the multipart path alike.
C3_CaptionAndParseModeTogether ==
    \A i \in Slots :
        IsMediaCall(i) =>
            \A k \in 1..Len(inv[i].reqs) :
                LET keys == DOMAIN inv[i].reqs[k].fields
                IN IF inv[i].args.caption = None
                   THEN "caption" \notin keys /\ "parse_mode" \notin keys
                   ELSE "caption" \in keys /\ "parse_mode" \in keys

\* the response body as text: JSON when it is structured, else as it came
SerializedBody(d) == IF d.t = "obj" THEN JSONstringify(d) ELSE d.s

\* C4: when the upstream call fails with a response body, the tool output
\* holds the failure prefix and the serialized response body.
C4_FailureShowsResponseBody ==
    \A i \in Slots :
        (Done(i) /\ IsSome(inv[i].resp) /\ Get(inv[i].resp).kind = "http"
                 /\ Truthy(Get(inv[i].resp).data)) =>
            LET text == Get(inv[i].outcome).text
            IN /\ \/ Includes(text, <<"Failed to ">>)
                  \/ Includes(text, <<"Unhandled error: ">>)
               /\ Includes(text, SerializedBody(Get(inv[i].resp).data))

\* C5: every error of an invocation ends at the tool boundary: the
\* registered handler never rejects and always returns a text envelope.
C5_HandlerNeverRejects ==
    \A i \in Slots :
        Done(i) => Get(inv[i].outcome).kind = "returned"

C6_Confirmation(op) ==
    CASE op = "message"  -> <<"Message sent successfully">>
      [] op = "photo"    -> <<"Photo sent successfully">>
      [] op = "document" -> <<"Document sent successfully">>
      [] op = "video"    -> <<"Video sent successfully">>

\* C6: an invocation returns its fixed confirmation exactly when its
\* upstream POST was issued and completed successfully (a 2xx response);
\* it returns nothing else, never after a resolution or upstream failure,
\* and the returned text never holds the upstream response payload.
C6_ConfirmationIffPostSucceeded ==
    \A i \in Slots :
        Done(i) =>
            LET o == Get(inv[i].outcome)
                posted == /\ Len(inv[i].reqs) = 1
                          /\ IsSome(inv[i].resp)
                          /\ Get(inv[i].resp).kind = "ok"
            IN /\ (o.kind = "returned") <=> posted
               /\ o.kind = "returned" => o.text = C6_Confirmation(inv[i].args.op)
               /\ o.kind = "rejected" =>
                      ~Includes(o.text, C6_Confirmation(inv[i].args.op))
               /\ posted => ~Includes(o.text, JSONstringify(Get(inv[i].resp).data))

\* a local upload was answered 2xx and confirmed, and elsewhere in the run
\* the same kind of call fails; here: the confirmed upload
C6_Witness ==
    \E i \in Slots :
        /\ Done(i)
        /\ inv[i].args.op = "document"
        /\ inv[i].probed = "found"
        /\ Get(inv[i].resp).kind = "ok"
        /\ Get(inv[i].outcome) = Returned(<<"Document sent successfully">>)

\* C7: an invocation issues at most one upstream POST, exactly one when it
\* is the text message or when its media resolved to Remote or Local, and
\* none when resolution failed; a failed POST is not retried; two calls of
\* the text message with the same input each issue their own request.
C7_SinglePostPerInvocation ==
    \A i \in Slots :
        /\ Len(inv[i].reqs) <= 1
        /\ (/\ inv[i].pc \in {"posting", "done"}
            /\ \/ inv[i].args.op = "message"
               \/ UrlParses(inv[i].args.ref)
               \/ inv[i].probed = "found") => Len(inv[i].reqs) = 1
        /\ inv[i].probed = "missing" => Len(inv[i].reqs) = 0
        /\ \A j \in Slots \ {i} :
               (/\ inv[i].args.op = "message"
                /\ inv[j].args = inv[i].args
                /\ inv[i].pc \in {"posting", "done"}
                /\ inv[j].pc \in {"posting", "done"}) =>
                   Len(inv[i].reqs) = 1 /\ Len(inv[j].reqs) = 1

\* the text message was called twice with the same input: one call failed
\* upstream, the other succeeded, and each issued its own, equal request
C7_Witness ==
    \E i, j \in Slots :
        /\ i # j
        /\ inv[i].args.op = "message"
        /\ inv[j].args = inv[i].args
        /\ Done(i) /\ Done(j)
        /\ Get(inv[i].resp).kind = "http"
        /\ Get(inv[j].resp).kind = "ok"
        /\ Len(inv[i].reqs) = 1
        /\ inv[j].reqs = inv[i].reqs

\* C8: when the bot token or the chat id is missing, the process halts at
\* startup: no tool is registered or served, and no tool call is the first
\* to find the value missing.
C8_MissingConfigHaltsStartup ==
    (config.token = Unset \/ config.chatId = Unset) =>
        /\ phase = "boot"
        /\ \A i \in Slots : inv[i].pc = "idle"

\* two settled invocations with the same input, the same probe result and
\* the same upstream response sent the same request and settled alike
C9_SameInSameOut ==
    \A i, j \in Slots :
        (/\ Done(i) /\ Done(j)
         /\ inv[i].args = inv[j].args
         /\ inv[i].probed = inv[j].probed
         /\ inv[i].resp = inv[j].resp) =>
            /\ inv[i].reqs = inv[j].reqs
            /\ inv[i].outcome = inv[j].outcome

\* C9: under any interleaving of in-flight invocations the configuration
\* never changes, a step of one invocation (its failure included) leaves
\* every other invocation's request and result untouched, and an
\* invocation's request and result are fixed by its own input, its own
\* probe and its own upstream response.
C9_InvocationsAreIsolated ==
    [][/\ config' = config
       /\ \A i \in Slots :
              inv'[i] # inv[i] => \A j \in Slots \ {i} : inv'[j] = inv[j]
       /\ C9_SameInSameOut']_vars

\* one invocation has failed upstream while another, with the same input,
\* is still awaiting its own response with its request intact
C9_Witness ==
    \E i, j \in Slots :
        /\ i # j
        /\ Done(i)
        /\ Get(inv[i].outcome).kind = "rejected"
        /\ IsSome(inv[i].resp)
        /\ inv[j].pc = "posting"
        /\ inv[j].args = inv[i].args
        /\ inv[j].reqs = inv[i].reqs

\* C10: a read stream opened for a local upload is closed before the
\* invocation returns, whether the POST succeeded or failed.
C10_StreamClosedOnReturn ==
    \A i \in Slots :
        Done(i) => inv[i].stream \notin {"pending", "open"}

\* C11 as stated: a filename override that is supplied, the empty string
\* included, is the filename of the binary field of a document or video
\* upload; the photo upload never bears one; a JSON request bears none.
C11_SuppliedFilenameAttached ==
    \A i \in Slots :
        \A k \in 1..Len(inv[i].reqs) :
            LET req == inv[i].reqs[k]
                a == inv[i].args
            IN IF req.format = "multipart"
               THEN /\ IsSome(req.file)
                    /\ Get(req.file).filename =
                           (IF a.op = "photo" THEN None ELSE a.filename)
               ELSE req.file = None /\ "filename" \notin DOMAIN req.fields

\* C11: a non-empty filename override is the filename of the binary field
\* of a document or video multipart upload; an omitted or empty one leaves
\* the field untagged; the photo upload never bears a filename; on the
\* Remote path the request has no file part and no filename, whatever the
\* override is.
C11_FilenameTagsUpload ==
    \A i \in Slots :
        \A k \in 1..Len(inv[i].reqs) :
            LET req == inv[i].reqs[k]
                a == inv[i].args
            IN IF req.format = "multipart"
               THEN /\ IsSome(req.file)
                    /\ Get(req.file).filename =
                           (IF a.op \in {"document", "video"}
                               /\ a.filename # None /\ a.filename # Some(<<>>)
                            THEN a.filename ELSE None)
               ELSE req.file = None /\ "filename" \notin DOMAIN req.fields

\* a document was uploaded from a path under the supplied name and confirmed
C11_Witness ==
    \E i \in Slots :
        /\ inv[i].args.op = "document"
        /\ inv[i].args.filename = Some(<<"Q3-Report.pdf">>)
        /\ inv[i].probed = "found"
        /\ Done(i)
        /\ Get(inv[i].reqs[1].file).filename = Some(<<"Q3-Report.pdf">>)
        /\ Get(inv[i].outcome).kind = "returned"

\* C12: a media string that does not parse as a URL and whose existence
\* probe succeeded takes the Local path: the invocation issues exactly one
\* request, a multipart form holding chat_id and one binary field named
\* photo, document or video after the operation, streamed from that very
\* path; it never issues a JSON body.  Conversely the read stream and the
\* multipart form exist only on that path.
C12_FoundFileTakesLocal ==
    \A i \in Slots :
        /\ (IsMediaCall(i) /\ ~UrlParses(inv[i].args.ref)
                           /\ inv[i].probed = "found") =>
               /\ inv[i].pc \in {"posting", "done"}
               /\ Len(inv[i].reqs) = 1
               /\ inv[i].reqs[1].format = "multipart"
               /\ "chat_id" \in DOMAIN inv[i].reqs[1].fields
               /\ inv[i].reqs[1].fields["chat_id"] = <<config.chatId>>
               /\ inv[i].args.op \notin DOMAIN inv[i].reqs[1].fields
               /\ IsSome(inv[i].reqs[1].file)
               /\ Get(inv[i].reqs[1].file).field = inv[i].args.op
               /\ Get(inv[i].reqs[1].file).path = inv[i].args.ref
               /\ inv[i].stream # "none"
        /\ (\/ inv[i].stream # "none"
            \/ \E k \in 1..Len(inv[i].reqs) : inv[i].reqs[k].format = "multipart") =>
               /\ IsMediaCall(i)
               /\ ~UrlParses(inv[i].args.ref)
               /\ inv[i].probed = "found"

\* a video that exists under a bare path was streamed from it and confirmed
C12_Witness ==
    \E i \in Slots :
        /\ inv[i].args.op = "video"
        /\ inv[i].args.ref = BarePath
        /\ inv[i].probed = "found"
        /\ Done(i)
        /\ Get(inv[i].reqs[1].file).field = "video"
        /\ Get(inv[i].reqs[1].file).path = BarePath
        /\ inv[i].stream = "closed"
        /\ Get(inv[i].outcome).kind = "returned"

\* scheme ":" "//" host: a string with both a scheme and an authority
C13_HasSchemeAndAuthority(str) ==
    /\ Len(str) >= 4
    /\ str[2] = ":"
    /\ str[3] = "//"
    /\ str[4] \notin {"//", "/", "\\"}

\* C13: a media string is sent by reference (Remote) only if it has both a
\* scheme and an authority; a bare path, a Windows drive path or a
\* scheme-only string is never sent by reference and reaches the
\* filesystem check.
C13_RemoteNeedsSchemeAndAuthority ==
    \A i \in Slots :
        (IsMediaCall(i) /\ inv[i].pc \in {"posting", "done"}) =>
            (~C13_HasSchemeAndAuthority(inv[i].args.ref) =>
                /\ inv[i].probed # "no"
                /\ \A k \in 1..Len(inv[i].reqs) : inv[i].reqs[k].format # "json")

\* C14: a request that carries parse_mode carries "MarkdownV2" when the
\* call omitted parseMode and the supplied value otherwise, for the text
\* message and for captions, on the JSON and on the multipart path, in the
\* service revision and in the inline revision alike; the text message
\* always carries it.
C14_ParseModeDefaultsToMarkdownV2 ==
    \A i \in Slots :
        \A k \in 1..Len(inv[i].reqs) :
            LET fields == inv[i].reqs[k].fields
                a == inv[i].args
            IN /\ "parse_mode" \in DOMAIN fields =>
                      fields["parse_mode"] =
                          (IF a.parseMode = None THEN <<"MarkdownV2">>
                           ELSE Get(a.parseMode))
               /\ a.op = "message" => "parse_mode" \in DOMAIN fields

\* the inline revision uploaded a captioned photo from a path without a
\* parseMode, and the form carried the default
C14_Witness ==
    \E i \in Slots :
        /\ phase = "inline"
        /\ inv[i].args.op = "photo"
        /\ inv[i].args.parseMode = None
        /\ inv[i].args.caption = Some(<<"hi">>)
        /\ inv[i].probed = "found"
        /\ Done(i)
        /\ inv[i].reqs[1].fields["parse_mode"] = <<"MarkdownV2">>

C15_MethodName(op) ==
    CASE op = "message"  -> "sendMessage"
      [] op = "photo"    -> "sendPhoto"
      [] op = "document" -> "sendDocument"
      [] op = "video"    -> "sendVideo"

\* C15: every upstream request goes to /bot<token>/<method> with the
\* configured token, the method fixed by the operation, and chat_id equal
\* to the configured chat id; the text message makes no URL check, no
\* filesystem probe and no stream, and sends exactly one JSON body made of
\* chat_id, text and parse_mode with the text as given, whatever the text
\* looks like.
C15_EndpointAndChatId ==
    \A i \in Slots :
        /\ \A k \in 1..Len(inv[i].reqs) :
               LET req == inv[i].reqs[k]
               IN /\ req.token = config.token
                  /\ req.method = C15_MethodName(inv[i].args.op)
                  /\ "chat_id" \in DOMAIN req.fields
                  /\ req.fields["chat_id"] = <<config.chatId>>
        /\ (inv[i].args.op = "message" /\ inv[i].pc # "idle") =>
               /\ inv[i].pc \in {"posting", "done"}
               /\ inv[i].probed = "no"
               /\ inv[i].stream = "none"
               /\ Len(inv[i].reqs) = 1
               /\ inv[i].reqs[1].format = "json"
               /\ inv[i].reqs[1].file = None
               /\ DOMAIN inv[i].reqs[1].fields = {"chat_id", "text", "parse_mode"}
               /\ inv[i].reqs[1].fields["text"] = inv[i].args.ref

\* a text message whose text is the path of an existing file was sent as
\* text and confirmed, and elsewhere a video goes to sendVideo; here: the
\* text message
C15_Witness ==
    \E i \in Slots :
        /\ inv[i].args.op = "message"
        /\ inv[i].args.ref = BarePath
        /\ BarePath \in fs
        /\ Done(i)
        /\ inv[i].reqs[1].method = "sendMessage"
        /\ inv[i].reqs[1].fields["text"] = BarePath
        /\ Get(inv[i].outcome).kind = "returned"

\* C16: every invocation that has started eventually returns to the host,
\* with its confirmation or with a failure, also when the upstream never
\* answers the request.
C16_EveryInvocationReturns ==
    \A i \in 1..MaxInFlight :
        (i \in Slots /\ inv[i].pc \in {"probing", "posting"})
            ~> (i \in Slots /\ inv[i].pc = "done")

\* the text holds a bot token, or the path prefix of the token-bearing URL
C17_Discloses(text) ==
    \E k \in 1..Len(text) : text[k] \in Tokens \cup {"/bot"}

\* C17: the token reaches the endpoint URL of a request and nothing else:
\* no field and no file part of a request holds it, and whichever token is
\* configured, no text returned to the host and no error message (the
\* error given to the handler included) holds the token or the
\* token-bearing URL.
C17_TokenNeverEmitted ==
    \A i \in Slots :
        /\ \A k \in 1..Len(inv[i].reqs) :
               LET req == inv[i].reqs[k]
               IN /\ \A f \in DOMAIN req.fields : ~C17_Discloses(req.fields[f])
                  /\ IsSome(req.file) =>
                         /\ ~C17_Discloses(Get(req.file).path)
                         /\ IsSome(Get(req.file).filename) =>
                                ~C17_Discloses(Get(Get(req.file).filename))
        /\ IsSome(inv[i].outcome) => ~C17_Discloses(Get(inv[i].outcome).text)
        /\ IsSome(inv[i].resp) => ~C17_Discloses(Get(inv[i].resp).message)

\* under the second token a POST was refused by the upstream and the
\* failure, response body included, has reached the host
C17_Witness ==
    \E i \in Slots :
        /\ config.token = "456:def"
        /\ Done(i)
        /\ IsSome(inv[i].resp)
        /\ Get(inv[i].resp).kind = "http"
        /\ inv[i].reqs[1].token = "456:def"
        /\ Get(inv[i].outcome).kind = "rejected"
        /\ Includes(Get(inv[i].outcome).text, <<"Failed to ">>)

\* C18: for every way the POST settles, telegramPost returns a value: on a
\* non-2xx response or a network error a failure holding the status code
\* (when there was a response) and a message that is text, namely the
\* response body as text (JSON when structured) or else the transport
\* error's message; on a 2xx response the decoded body unchanged.
C18_FailureValueWithTextMessage ==
    \A i \in Slots :
        (Done(i) /\ IsSome(inv[i].resp)) =>
            LET r == Get(inv[i].resp)
                result == telegramPost(r)
            IN IF r.kind = "ok"
               THEN ~result.error /\ result.data = r.data
               ELSE /\ result.error
                    /\ r.kind = "http" => result.status = Some(r.status)
                    /\ result.message.t = "str"
                    /\ result.message.s =
                           (IF Truthy(r.data) THEN SerializedBody(r.data)
                            ELSE r.message)

C19_Wrapper(op) ==
    CASE op = "photo"    -> <<"Failed to ", "send photo", ": ">>
      [] op = "document" -> <<"Failed to ", "send document", ": ">>
      [] op = "video"    -> <<"Failed to ", "send video", ": ">>

\* C19: a failed sendPhoto, sendDocument or sendVideo leaves its error
\* without the "Failed to send <kind>: " wrapper exactly when the error
\* is the resolution error (the string is neither a URL nor an existing
\* file); a failure of the POST or of reading the file is always wrapped,
\* whatever its own message holds.
C19_OnlyResolutionErrorUnwrapped ==
    \A i \in Slots :
        (IsMediaCall(i) /\ Done(i) /\ Get(inv[i].outcome).kind = "rejected") =>
            LET text == Get(inv[i].outcome).text
                w == C19_Wrapper(inv[i].args.op)
                wrapped == Len(text) >= Len(w) /\ SubSeq(text, 1, Len(w)) = w
            IN wrapped <=> inv[i].probed # "missing"

\* C20 as stated: an invocation whose probe found the file and whose file
\* is gone while its stream is not yet read to the end (not yet opened, or
\* opened and still being sent) never completes with a confirmation.
C20_RemovedFileNeverConfirmed ==
    [][\A i \in Slots :
           (/\ inv[i].probed = "found"
            /\ inv[i].pc = "posting"
            /\ inv[i].stream \in {"pending", "open", "failed"}
            /\ inv[i].args.ref \notin fs
            /\ inv'[i].pc = "done") =>
               Get(inv'[i].outcome).kind = "rejected"]_vars

\* C20: when the file is removed after the probe found it and before the
\* read stream opens, the stream fails to open and the invocation neither
\* confirms nor stays pending: the failure is ready to be delivered without
\* any answer from the upstream, and the invocation ends rejected with the
\* stream's error, having received no upstream response; the outcome is
\* per invocation.
C20_RemovedBeforeOpenFails ==
    \A i \in Slots :
        inv[i].stream = "failed" =>
            /\ inv[i].probed = "found"
            /\ \/ inv[i].pc = "posting" /\ ENABLED RespondStreamError(i)
               \/ /\ Done(i)
                  /\ Get(inv[i].outcome).kind = "rejected"
                  /\ Get(inv[i].resp).kind = "stream"
                  /\ Includes(Get(inv[i].outcome).text, inv[i].args.ref)

\* two uploads of the same path: the file was gone when the stream of one
\* opened, and that one failed; the other was sent in full and confirmed
C20_Witness ==
    \E i, j \in Slots :
        /\ i # j
        /\ inv[i].args = inv[j].args
        /\ inv[i].probed = "found" /\ inv[j].probed = "found"
        /\ inv[i].stream = "failed"
        /\ Done(i) /\ Get(inv[i].outcome).kind = "rejected"
        /\ Done(j) /\ Get(inv[j].outcome).kind = "returned"
        /\ inv[j].stream = "closed"

\* C21: an invocation of the text message whose POST was answered 2xx with
\* a body holding ok = false reports "Telegram API returned ok=false" to
\* the host and never "Message sent successfully"; the confirmation is
\* given only when the body of the 2xx response holds ok = true.
C21_OkFalseReportedAsFailure ==
    \A i \in Slots :
        (Done(i) /\ inv[i].args.op = "message" /\ IsSome(inv[i].resp)) =>
            LET r == Get(inv[i].resp)
                text == Get(inv[i].outcome).text
            IN /\ (r.kind = "ok" /\ ~r.data.ok) =>
                      /\ Includes(text, <<"Telegram API returned ok=false">>)
                      /\ ~Includes(text, <<"Message sent successfully">>)
               /\ Includes(text, <<"Message sent successfully">>) =>
                      (r.kind = "ok" /\ r.data.t = "obj" /\ r.data.ok)

====
